---- MODULE Spec2Model ----
(***************************************************************************)
(* A model of the resumable PoST initialization engine                     *)
(* (initialization/initialization.go) and of the multi-provider driver     *)
(* (cmd/postcli/main.go).                                                  *)
(*                                                                         *)
(* The data directory (label files, metadata record) is shared state; an   *)
(* Initializer instance is in-memory state that a crash destroys; every    *)
(* call in progress is a process with a program counter.  A label file is  *)
(* a sequence of bytes, a label is BitsPerLabel/8 bytes.  The buffered     *)
(* label writer is modelled at batch granularity: a written batch is       *)
(* either still in the writer's buffer or on disk.                         *)
(***************************************************************************)
EXTENDS Integers, Sequences, FiniteSets, TLC

\* ------------------------------------------------------------------ bounds
NumNodeIds == 2
MaxUnits == 2
LabelsPerUnit == 5
MaxFileSize == 48
ComputeBatchSize == 2
PosBits == 4
MaxProcs == 3
PartProviders == 2
LockUnits == 1
MaxCallers == 2

\* config.BitsPerLabel
BitsPerLabel == 128

LabelBytes == BitsPerLabel \div 8

\* uint64 arithmetic, at the model's width
PosModulus == 2 ^ PosBits
MaxUint64 == PosModulus - 1

Procs == 1..MaxProcs
Insts == 1..MaxProcs
NodeIds == 1..NumNodeIds

\* a nil *uint64
NoPos == -1
\* a nil []byte
NoBytes == << >>

Min(a, b) == IF a < b THEN a ELSE b

\* ------------------------------------------------------------ byte strings
\* bytes.Compare: lexicographic, byte-wise, unsigned
BytesCompare(a, b) ==
    LET n == Min(Len(a), Len(b))
        diff == {j \in 1..n : a[j] # b[j]}
    IN  IF diff = {}
        THEN (IF Len(a) < Len(b) THEN -1 ELSE IF Len(a) > Len(b) THEN 1 ELSE 0)
        ELSE LET j == CHOOSE j \in diff : \A i \in diff : j <= i
             IN  IF a[j] < b[j] THEN -1 ELSE 1

\* b[from:] with a 0-based offset, as a Go slice expression
SliceFrom(b, from) == SubSeq(b, from + 1, Len(b))
\* b[:n]
SliceTo(b, n) == SubSeq(b, 1, n)

\* ------------------------------------------------------------- work oracle
\* oracle.CommitmentBytes(nodeId, commitmentAtxId)
CommitmentBytes(nodeId, commitmentAtxId) == nodeId + NumNodeIds * (commitmentAtxId - 1)

\* the pseudo-random function behind the labels: a fixed table per
\* commitment, of the leading 4 bits of the labels of positions 0, 1, ...
LabelTable ==
    << << 5, 9, 3, 12, 7, 4, 15, 6, 10, 3, 8, 13, 5, 11, 6, 0 >>,
       << 5, 2, 1, 2, 0, 7, 9, 4, 0, 11, 6, 14, 3, 9, 12, 8 >>,
       << 5, 9, 3, 12, 7, 4, 2, 6, 10, 3, 8, 13, 5, 11, 6, 7 >> >>
LabelHead(c, p) ==
    LabelTable[((c - 1) % Len(LabelTable)) + 1][(p % Len(LabelTable[1])) + 1]

\* the label of position p under commitment c: LabelBytes bytes
Label(c, p) ==
    [j \in 1..LabelBytes |->
        CASE j = 1 -> LabelHead(c, p) \div 4
          [] j = 2 -> LabelHead(c, p) % 4
          [] j = 3 -> p % 256
          [] j = 4 -> c % 256
          [] OTHER -> 0]

\* shared.PowDifficulty(numLabels): the threshold falls as the space grows
PowDifficulty(numLabels) ==
    LET d == 16 \div numLabels
    IN  [j \in 1..LabelBytes |->
            CASE j = 1 -> d \div 4
              [] j = 2 -> d % 4
              [] OTHER -> 0]

\* the positions of an inclusive range (empty when the end wrapped around)
Range(start, end) == {p \in 0..MaxUint64 : start <= p /\ p <= end}

\* the labels of start..end, concatenated
RangeOutput(c, start, end) ==
    LET n == IF end >= start THEN end - start + 1 ELSE 0
    IN  [j \in 1..(n * LabelBytes) |->
            Label(c, start + ((j - 1) \div LabelBytes))[((j - 1) % LabelBytes) + 1]]

\* WorkOracle.Positions(start, end): the labels of the range and, when a
\* label of the range is below the difficulty, one such position: the first
\* one or the one of the smallest label, as the provider (pick) does it
Positions(c, difficulty, pick, start, end) ==
    LET good == {p \in Range(start, end) : BytesCompare(Label(c, p), difficulty) < 0}
        first == CHOOSE p \in good : \A q \in good : p <= q
        best == CHOOSE p \in good : \A q \in good :
                    \/ BytesCompare(Label(c, p), Label(c, q)) < 0
                    \/ (BytesCompare(Label(c, p), Label(c, q)) = 0 /\ p <= q)
    IN  [Output |-> RangeOutput(c, start, end),
         Nonce  |-> IF good = {} THEN NoPos
                    ELSE IF pick = "first" THEN first ELSE best]

\* ------------------------------------------------------------------ layout
\* opts.MaxFileNumLabels()
MaxFileNumLabels(o) == (o.MaxFileSize * 8) \div BitsPerLabel

\* numLabels := uint64(init.opts.NumUnits) * init.cfg.LabelsPerUnit
NumLabels(o) == o.NumUnits * o.LabelsPerUnit

\* deriveFilesLayout(cfg, opts)
deriveFilesLayout(o) ==
    LET maxLabels == MaxFileNumLabels(o)
        total == NumLabels(o)
        numFiles == (total + maxLabels - 1) \div maxLabels
    IN  [NumFiles          |-> numFiles,
         FileNumLabels     |-> maxLabels,
         LastFileNumLabels |-> total - (numFiles - 1) * maxLabels]

\* the fileOffset and fileNumLabels Initialize passes to initFile for file i
FileOffset(o, i) == i * deriveFilesLayout(o).FileNumLabels
FileTarget(o, i) ==
    IF i = deriveFilesLayout(o).NumFiles - 1
    THEN deriveFilesLayout(o).LastFileNumLabels
    ELSE deriveFilesLayout(o).FileNumLabels

\* -------------------------------------------------------------------- disk
\* LabelsWriter.NumLabelsWritten: the file's size in labels
FileNumLabelsWritten(f) == (Len(f) * 8) \div BitsPerLabel

RECURSIVE SumLabels(_, _)
SumLabels(fs, idx) ==
    IF idx = {} THEN 0
    ELSE LET i == CHOOSE i \in idx : TRUE
         IN  FileNumLabelsWritten(fs[i]) + SumLabels(fs, idx \ {i})

\* DiskState.NumLabelsWritten: over every label file of the directory
DiskNumLabelsWritten(fs) == SumLabels(fs, DOMAIN fs)

\* DiskState.NumFilesWritten
DiskNumFilesWritten(fs) == Cardinality(DOMAIN fs)

\* the directory without the files of rm
RemoveFiles(fs, rm) == [i \in (DOMAIN fs) \ rm |-> fs[i]]

\* the directory with file i holding content
PutFile(fs, i, content) ==
    [j \in (DOMAIN fs) \cup {i} |-> IF j = i THEN content ELSE fs[j]]

\* persistence.NewLabelsWriter opens with O_CREATE|O_APPEND
OpenFile(fs, i) == IF i \in DOMAIN fs THEN fs ELSE PutFile(fs, i, << >>)

\* ---------------------------------------------------------------- metadata
\* a shared.PostMetadata record
PostMetadata(o, n, lp) ==
    [NodeId          |-> o.NodeId,
     CommitmentAtxId |-> o.CommitmentAtxId,
     LabelsPerUnit   |-> o.LabelsPerUnit,
     NumUnits        |-> o.NumUnits,
     MaxFileSize     |-> o.MaxFileSize,
     Nonce           |-> n,
     LastPosition    |-> lp]

\* the directory holds no metadata file
NoMetadata == << >>

\* SaveMetadata(dir, v): the whole record replaces the file's content
SaveMetadata(v) == << v >>

\* a faulty variant: the node id is not compared
verifyMetadataSkipsNodeId(o, m) ==
    IF o.CommitmentAtxId # m.CommitmentAtxId THEN "CommitmentAtxId"
    ELSE IF o.LabelsPerUnit # m.LabelsPerUnit THEN "LabelsPerUnit"
    ELSE IF o.MaxFileSize # m.MaxFileSize THEN "MaxFileSize"
    ELSE IF o.NumUnits > m.NumUnits THEN "NumUnits"
    ELSE "nil"

\* a faulty variant: the NumUnits comparison the other way round
verifyMetadataRejectsShrink(o, m) ==
    IF o.NodeId # m.NodeId THEN "NodeId"
    ELSE IF o.CommitmentAtxId # m.CommitmentAtxId THEN "CommitmentAtxId"
    ELSE IF o.LabelsPerUnit # m.LabelsPerUnit THEN "LabelsPerUnit"
    ELSE IF o.MaxFileSize # m.MaxFileSize THEN "MaxFileSize"
    ELSE IF o.NumUnits < m.NumUnits THEN "NumUnits"
    ELSE "nil"

\* Initializer.verifyMetadata: nil, or the Param of the ConfigMismatchError
verifyMetadata(o, m) ==
    IF o.NodeId # m.NodeId THEN "NodeId"
    ELSE IF o.CommitmentAtxId # m.CommitmentAtxId THEN "CommitmentAtxId"
    ELSE IF o.LabelsPerUnit # m.LabelsPerUnit THEN "LabelsPerUnit"
    ELSE IF o.MaxFileSize # m.MaxFileSize THEN "MaxFileSize"
    ELSE IF o.NumUnits > m.NumUnits THEN "NumUnits"
    ELSE "nil"

\* the directory's record was written for the configuration o
RecordedFor(o, mt) ==
    /\ mt # NoMetadata
    /\ mt[1].NodeId = o.NodeId
    /\ mt[1].CommitmentAtxId = o.CommitmentAtxId
    /\ mt[1].LabelsPerUnit = o.LabelsPerUnit
    /\ mt[1].NumUnits = o.NumUnits
    /\ mt[1].MaxFileSize = o.MaxFileSize

\* ------------------------------------------------------------------- state
VARIABLES
    files,              \* the label files of the data directory: index -> bytes
    meta,               \* the metadata file: << >> or << record >>
    opts,               \* per instance: identity, cfg and opts
    nonceValue,         \* per instance: init.nonceValue
    nonce,              \* per instance: init.nonce
    lastPosition,       \* per instance: init.lastPosition
    numLabelsWritten,   \* per instance: init.numLabelsWritten
    mtx,                \* per instance: 0, or the process holding init.mtx
    instOf,             \* the instance a process calls
    pc,                 \* per process: where its call stands
    call,               \* per process: the call it made last
    result,             \* per process: what that call returned
    ctxDone,            \* per process: its context is cancelled
    fileIndex,          \* per process: i of Initialize's loop over the files
    currentPosition,    \* per process: currentPosition of initFile's loop
    batchSize,          \* per process: initFile's batchSize
    res,                \* per process: the oracle's answer for the batch
    wbuf,               \* per process: the label writer's buffered bytes
    searchPos,          \* per process: i of the extended search's loop
    requested,          \* per process: the ranges its call asked the oracle for
    resumed,            \* per process: its call continued a partly written file
    truncated,          \* per process: the files its call truncated
    oraclePick,         \* which candidate of a range the provider reports
    reported,           \* per instance: the candidates the oracle reported to it
    persisted,          \* the nonces saved as a new retained best, since the
                        \* directory was last empty of this configuration
    mainPc,             \* main: "off", "launch" (the loop over the providers),
                        \* "join" (the loop over the results) or "done"
    mainOpts,           \* main: the package variable opts
    providers,          \* main: ProviderIDs_len
    mainW,              \* main: w of the launch loop
    mainA,              \* main: a of the join loop
    results,            \* main: the number of values in the results channel
    doOpts              \* per process: the opts its do() was called with

diskVars == <<files, meta>>
instVars == <<opts, nonceValue, nonce, lastPosition, numLabelsWritten, mtx>>
procVars == <<pc, call, result, ctxDone, fileIndex, currentPosition, batchSize,
              res, wbuf, searchPos, requested, resumed, truncated>>
mainVars == <<mainPc, mainOpts, providers, mainW, mainA, results, doOpts>>
vars == <<files, meta, opts, nonceValue, nonce, lastPosition, numLabelsWritten,
          mtx, instOf, pc, call, result, ctxDone, fileIndex, currentPosition,
          batchSize, res, wbuf, searchPos, requested, resumed, truncated, oraclePick,
          reported, persisted, mainVars>>

\* the options of an instance: identity, cfg and opts in one record
InitOpts(nodeId, atxId, labelsPerUnit, numUnits, maxFileSize, batch) ==
    [NodeId           |-> nodeId,
     CommitmentAtxId  |-> atxId,
     LabelsPerUnit    |-> labelsPerUnit,
     NumUnits         |-> numUnits,
     MaxFileSize      |-> maxFileSize,
     ComputeBatchSize |-> batch,
     ProviderID       |-> 0,
     FromFileIdx      |-> 0,
     ToFileIdx        |-> NoPos]

\* the configurations a caller may construct an Initializer with
Configs ==
    {InitOpts(id, 1, LabelsPerUnit, u, MaxFileSize, ComputeBatchSize) :
        id \in NodeIds, u \in 1..MaxUnits}

NoOpts == InitOpts(0, 0, 0, 0, 0, 0)
NoRes == [Output |-> << >>, Nonce |-> NoPos]

\* init.commitment
Commitment(o) == CommitmentBytes(o.NodeId, o.CommitmentAtxId)

\* difficulty := init.powDifficultyFunc(numLabels)
Difficulty(o) == PowDifficulty(NumLabels(o))

\* Initializer.saveMetadata, given what init.nonce and init.lastPosition hold
saveMetadata(o, n, lp) == SaveMetadata(PostMetadata(o, n, lp))

\* ----------------------------------------------------------------- helpers
Inst(p) == instOf[p]

\* startPosition := fileOffset + currentPosition
StartPosition(fileOffset, position) == fileOffset + position

\* a faulty variant: the cancellation is never looked at
CtxNeverDone(p) == FALSE

\* the select on ctx.Done() before a batch
CtxDone(p) == ctxDone[p]

\* a faulty variant: the loop starts over at 0 whatever the file holds
ResumePositionZero(n) == 0

\* currentPosition := numLabelsWritten, where initFile's loop starts
ResumePosition(n) == n

\* a call of process p returns r; with unlock, its deferred init.mtx.Unlock() runs
Return(p, r, unlock) ==
    /\ pc' = [pc EXCEPT ![p] = "idle"]
    /\ result' = [result EXCEPT ![p] = r]
    /\ mtx' = IF unlock THEN [mtx EXCEPT ![Inst(p)] = 0] ELSE mtx
    /\ ctxDone' = [ctxDone EXCEPT ![p] = FALSE]
    /\ fileIndex' = [fileIndex EXCEPT ![p] = 0]
    /\ currentPosition' = [currentPosition EXCEPT ![p] = 0]
    /\ batchSize' = [batchSize EXCEPT ![p] = 0]
    /\ res' = [res EXCEPT ![p] = NoRes]
    /\ searchPos' = [searchPos EXCEPT ![p] = 0]
    /\ requested' = [requested EXCEPT ![p] = {}]

\* a call of process p to op begins
Call(p, op) ==
    /\ call' = [call EXCEPT ![p] = op]
    /\ resumed' = [resumed EXCEPT ![p] = FALSE]
    /\ truncated' = [truncated EXCEPT ![p] = {}]

\* a faulty variant: the lock is taken whoever holds it
TryLockAlways(p) == TRUE

\* init.mtx.TryLock()
TryLock(p) == mtx[Inst(p)] = 0

\* LabelsWriter.Flush (and Close): the buffered bytes reach file i
Flush(fs, i, buf) == PutFile(fs, i, fs[i] \o buf)

\* LabelsWriter.Truncate(numLabels)
Truncate(fs, i, n) == PutFile(fs, i, SliceTo(fs[i], (n * BitsPerLabel) \div 8))

\* removeRedundantFiles: the files layout.NumFiles .. numFiles-1 are removed
\* one by one; removing a file that does not exist fails
RedundantFiles(fs, o) ==
    {i \in 0..(DiskNumFilesWritten(fs) - 1) : i >= deriveFilesLayout(o).NumFiles}
RemoveFails(fs, o) == \E i \in RedundantFiles(fs, o) : i \notin DOMAIN fs
removeRedundantFiles(fs, o) ==
    LET bad == {i \in RedundantFiles(fs, o) : i \notin DOMAIN fs}
        stop == IF bad = {} THEN DiskNumFilesWritten(fs)
                ELSE CHOOSE i \in bad : \A j \in bad : i <= j
    IN  RemoveFiles(fs, {i \in RedundantFiles(fs, o) : i < stop})

\* -------------------------------------------------------------- NewInitializer
\* a faulty variant: the directory is never checked
NewInitializerUnchecked(o) == "nil"

\* NewInitializer(opts...): what the load and the check of the metadata
\* return when the directory holds labels
NewInitializerError(o) ==
    IF DiskNumLabelsWritten(files) > 0
    THEN IF meta = NoMetadata THEN "ErrStateMetadataFileMissing"
         ELSE IF verifyMetadata(o, meta[1]) # "nil"
              THEN verifyMetadata(o, meta[1]) ELSE "nil"
    ELSE "nil"

NewInitializerFails(p, o) ==
    /\ pc[p] = "none"
    /\ NewInitializerError(o) # "nil"
    /\ call' = [call EXCEPT ![p] = "NewInitializer"]
    /\ result' = [result EXCEPT ![p] = NewInitializerError(o)]
    /\ UNCHANGED <<diskVars, instVars, instOf, pc, ctxDone, fileIndex,
                   currentPosition, batchSize, res, wbuf, searchPos, requested,
                   resumed, truncated, oraclePick, reported,
                   persisted, mainVars>>

NewInitializer(p, o) ==
    /\ pc[p] = "none"
    /\ NewInitializerError(o) = "nil"
    /\ LET k == Inst(p)
           loaded == DiskNumLabelsWritten(files) > 0
           n == IF loaded THEN meta[1].Nonce ELSE NoPos
           lp == IF loaded THEN meta[1].LastPosition ELSE NoPos
       IN  /\ opts' = [opts EXCEPT ![k] = o]
           /\ nonce' = [nonce EXCEPT ![k] = n]
           /\ lastPosition' = [lastPosition EXCEPT ![k] = lp]
           /\ nonceValue' = [nonceValue EXCEPT ![k] = NoBytes]
           /\ numLabelsWritten' = [numLabelsWritten EXCEPT ![k] = 0]
           /\ mtx' = [mtx EXCEPT ![k] = 0]
           /\ meta' = saveMetadata(o, n, lp)
    /\ pc' = [pc EXCEPT ![p] = "idle"]
    /\ call' = [call EXCEPT ![p] = "NewInitializer"]
    /\ result' = [result EXCEPT ![p] = "nil"]
    /\ reported' = [reported EXCEPT ![Inst(p)] = {}]
    /\ persisted' = IF RecordedFor(o, meta) THEN persisted ELSE {}
    /\ UNCHANGED <<files, instOf, ctxDone, fileIndex, currentPosition, batchSize,
                   res, wbuf, searchPos, requested, resumed, truncated, oraclePick, mainVars>>

\* ------------------------------------------------------------------ Initialize
\* Initialize finds the lock held
InitializeBusy(p) ==
    /\ pc[p] = "idle"
    /\ ~TryLock(p)
    /\ Call(p, "Initialize")
    /\ Return(p, "ErrAlreadyInitializing", FALSE)
    /\ UNCHANGED <<diskVars, opts, nonceValue, nonce, lastPosition, numLabelsWritten,
                   instOf, wbuf, oraclePick, reported, persisted, mainVars>>

\* Initialize takes the lock, removes the redundant files and enters its loop
InitializeBegin(p) ==
    /\ pc[p] = "idle"
    /\ TryLock(p)
    /\ Call(p, "Initialize")
    /\ files' = removeRedundantFiles(files, opts[Inst(p)])
    /\ IF RemoveFails(files, opts[Inst(p)])
       THEN Return(p, "IOError", TRUE)
       ELSE /\ mtx' = [mtx EXCEPT ![Inst(p)] = p]
            /\ pc' = [pc EXCEPT ![p] = "file"]
            /\ result' = [result EXCEPT ![p] = "running"]
            /\ ctxDone' = [ctxDone EXCEPT ![p] = FALSE]
            /\ fileIndex' = [fileIndex EXCEPT ![p] = 0]
            /\ UNCHANGED <<currentPosition, batchSize, res, searchPos, requested>>
    /\ UNCHANGED <<meta, opts, nonceValue, nonce, lastPosition, numLabelsWritten,
                   instOf, wbuf, oraclePick, reported, persisted, mainVars>>

\* a faulty variant: a complete file is emptied, to be written again
InitFileCompleteEmpties(p) ==
    LET o == opts[Inst(p)]
        i == fileIndex[p]
        opened == OpenFile(files, i)
    IN  /\ pc[p] = "file"
        /\ i < deriveFilesLayout(o).NumFiles
        /\ FileNumLabelsWritten(opened[i]) = FileTarget(o, i)
        /\ files' = PutFile(files, i, << >>)
        /\ numLabelsWritten' = [numLabelsWritten EXCEPT
                                  ![Inst(p)] = FileOffset(o, i) + FileTarget(o, i)]
        /\ fileIndex' = [fileIndex EXCEPT ![p] = i + 1]
        /\ UNCHANGED <<meta, opts, nonceValue, nonce, lastPosition, mtx, instOf, pc,
                       call, result, ctxDone, currentPosition, batchSize, res, wbuf,
                       searchPos, requested, resumed, truncated, oraclePick, reported,
                   persisted, mainVars>>

\* initFile opens file i and finds it complete: nothing is written
InitFileComplete(p) ==
    LET o == opts[Inst(p)]
        i == fileIndex[p]
        opened == OpenFile(files, i)
    IN  /\ pc[p] = "file"
        /\ i < deriveFilesLayout(o).NumFiles
        /\ FileNumLabelsWritten(opened[i]) = FileTarget(o, i)
        /\ files' = opened
        /\ numLabelsWritten' = [numLabelsWritten EXCEPT
                                  ![Inst(p)] = FileOffset(o, i) + FileTarget(o, i)]
        /\ fileIndex' = [fileIndex EXCEPT ![p] = i + 1]
        /\ UNCHANGED <<meta, opts, nonceValue, nonce, lastPosition, mtx, instOf, pc,
                       call, result, ctxDone, currentPosition, batchSize, res, wbuf,
                       searchPos, requested, resumed, truncated, oraclePick, reported,
                   persisted, mainVars>>

\* a faulty variant: the file that is too long is left as it is
InitFileTruncateSkips(p) ==
    LET o == opts[Inst(p)]
        i == fileIndex[p]
    IN  /\ pc[p] = "file"
        /\ i < deriveFilesLayout(o).NumFiles
        /\ i \in DOMAIN files
        /\ FileNumLabelsWritten(files[i]) > FileTarget(o, i)
        /\ files' = files
        /\ numLabelsWritten' = [numLabelsWritten EXCEPT
                                  ![Inst(p)] = FileOffset(o, i) + FileTarget(o, i)]
        /\ fileIndex' = [fileIndex EXCEPT ![p] = i + 1]
        /\ truncated' = [truncated EXCEPT ![p] = truncated[p] \cup {i}]
        /\ UNCHANGED <<meta, opts, nonceValue, nonce, lastPosition, mtx, instOf, pc,
                       call, result, ctxDone, currentPosition, batchSize, res, wbuf,
                       searchPos, requested, resumed, oraclePick, reported,
                   persisted, mainVars>>

\* initFile opens file i and finds more labels than its target: truncation
InitFileTruncate(p) ==
    LET o == opts[Inst(p)]
        i == fileIndex[p]
    IN  /\ pc[p] = "file"
        /\ i < deriveFilesLayout(o).NumFiles
        /\ i \in DOMAIN files
        /\ FileNumLabelsWritten(files[i]) > FileTarget(o, i)
        /\ files' = Truncate(files, i, FileTarget(o, i))
        /\ numLabelsWritten' = [numLabelsWritten EXCEPT
                                  ![Inst(p)] = FileOffset(o, i) + FileTarget(o, i)]
        /\ fileIndex' = [fileIndex EXCEPT ![p] = i + 1]
        /\ truncated' = [truncated EXCEPT ![p] = truncated[p] \cup {i}]
        /\ UNCHANGED <<meta, opts, nonceValue, nonce, lastPosition, mtx, instOf, pc,
                       call, result, ctxDone, currentPosition, batchSize, res, wbuf,
                       searchPos, requested, resumed, oraclePick, reported,
                   persisted, mainVars>>

\* initFile opens file i and starts, or continues, to write it
InitFileStart(p) ==
    LET o == opts[Inst(p)]
        i == fileIndex[p]
        opened == OpenFile(files, i)
        n == FileNumLabelsWritten(opened[i])
    IN  /\ pc[p] = "file"
        /\ i < deriveFilesLayout(o).NumFiles
        /\ n < FileTarget(o, i)
        /\ files' = opened
        /\ currentPosition' = [currentPosition EXCEPT ![p] = ResumePosition(n)]
        /\ batchSize' = [batchSize EXCEPT ![p] = o.ComputeBatchSize]
        /\ wbuf' = [wbuf EXCEPT ![p] = << >>]
        /\ resumed' = [resumed EXCEPT ![p] = resumed[p] \/ n > 0]
        /\ pc' = [pc EXCEPT ![p] = "batch"]
        /\ UNCHANGED <<truncated, meta, instVars, instOf, call, result, ctxDone, fileIndex,
                       res, searchPos, requested, oraclePick, reported,
                   persisted, mainVars>>

\* the batch loop ends: the file is flushed and Initialize goes to the next
InitFileDone(p) ==
    LET o == opts[Inst(p)]
        i == fileIndex[p]
    IN  /\ pc[p] = "batch"
        /\ ~(currentPosition[p] < FileTarget(o, i))
        /\ files' = Flush(files, i, wbuf[p])
        /\ wbuf' = [wbuf EXCEPT ![p] = << >>]
        /\ fileIndex' = [fileIndex EXCEPT ![p] = i + 1]
        /\ pc' = [pc EXCEPT ![p] = "file"]
        /\ UNCHANGED <<meta, instVars, instOf, call, result, ctxDone,
                       currentPosition, batchSize, res, searchPos, requested,
                       resumed, truncated, oraclePick, reported,
                   persisted, mainVars>>

\* before a batch the context is found cancelled: flush, return ctx.Err()
InitFileCancelled(p) ==
    LET o == opts[Inst(p)]
        i == fileIndex[p]
    IN  /\ pc[p] = "batch"
        /\ currentPosition[p] < FileTarget(o, i)
        /\ CtxDone(p)
        /\ files' = Flush(files, i, wbuf[p])
        /\ wbuf' = [wbuf EXCEPT ![p] = << >>]
        /\ Return(p, "Canceled", TRUE)
        /\ UNCHANGED <<meta, opts, nonceValue, nonce, lastPosition, numLabelsWritten,
                   instOf, call, resumed, truncated, oraclePick, reported, persisted, mainVars>>

\* the batch's labels are requested from the oracle
InitFileRequest(p) ==
    LET o == opts[Inst(p)]
        i == fileIndex[p]
        remaining == FileTarget(o, i) - currentPosition[p]
        size == IF remaining < batchSize[p] THEN remaining ELSE batchSize[p]
        startPosition == StartPosition(FileOffset(o, i), currentPosition[p])
        endPosition == startPosition + size - 1
    IN  /\ pc[p] = "batch"
        /\ currentPosition[p] < FileTarget(o, i)
        /\ ~CtxDone(p)
        /\ batchSize' = [batchSize EXCEPT ![p] = size]
        /\ res' = [res EXCEPT ![p] = Positions(Commitment(o), Difficulty(o),
                                               oraclePick, startPosition, endPosition)]
        /\ requested' = [requested EXCEPT
                           ![p] = requested[p] \cup {<<startPosition, endPosition>>}]
        /\ pc' = [pc EXCEPT ![p] = "nonce"]
        /\ UNCHANGED <<diskVars, instVars, instOf, call, result, ctxDone, fileIndex,
                       currentPosition, wbuf, searchPos, resumed, truncated, oraclePick, reported,
                   persisted, mainVars>>

\* candidate := res.Output[(*res.Nonce-startPosition)*16:]; candidate[:16]
Candidate(r, startPosition) ==
    SliceTo(SliceFrom(r.Output, (r.Nonce - startPosition) * 16), 16)

\* init.nonceValue == nil || bytes.Compare(candidate, init.nonceValue) < 0
IsNewBest(candidate, current) ==
    current = NoBytes \/ BytesCompare(candidate, current) < 0

\* the batch reported a candidate that beats the retained one: it is kept
\* and the metadata is saved
InitFileNewBestNonce(p) ==
    LET k == Inst(p)
        o == opts[k]
        startPosition == StartPosition(FileOffset(o, fileIndex[p]), currentPosition[p])
    IN  /\ pc[p] = "nonce"
        /\ res[p].Nonce # NoPos
        /\ IsNewBest(Candidate(res[p], startPosition), nonceValue[k])
        /\ nonceValue' = [nonceValue EXCEPT ![k] = Candidate(res[p], startPosition)]
        /\ nonce' = [nonce EXCEPT ![k] = res[p].Nonce]
        /\ meta' = saveMetadata(o, res[p].Nonce, lastPosition[k])
        /\ pc' = [pc EXCEPT ![p] = "write"]
        /\ persisted' = persisted \cup {res[p].Nonce}
        /\ reported' = [reported EXCEPT ![k] = reported[k] \cup ({res[p].Nonce} \ {NoPos})]
        /\ UNCHANGED <<files, opts, lastPosition, numLabelsWritten, mtx, instOf,
                       call, result, ctxDone, fileIndex, currentPosition, batchSize,
                       res, wbuf, searchPos, requested, resumed, truncated, oraclePick, mainVars>>

\* the batch reported no candidate, or none that beats the retained one
InitFileKeepNonce(p) ==
    LET k == Inst(p)
        o == opts[k]
        startPosition == StartPosition(FileOffset(o, fileIndex[p]), currentPosition[p])
    IN  /\ pc[p] = "nonce"
        /\ \/ res[p].Nonce = NoPos
           \/ /\ res[p].Nonce # NoPos
              /\ ~IsNewBest(Candidate(res[p], startPosition), nonceValue[k])
        /\ pc' = [pc EXCEPT ![p] = "write"]
        /\ reported' = [reported EXCEPT ![k] = reported[k] \cup ({res[p].Nonce} \ {NoPos})]
        /\ UNCHANGED <<diskVars, instVars, instOf, call, result, ctxDone, fileIndex,
                       currentPosition, batchSize, res, wbuf, searchPos, requested,
                       resumed, truncated, oraclePick,
                   persisted, mainVars>>

\* writer.Write(res.Output), then the progress counter is stored; the bytes
\* stay in the writer's buffer or reach the file
InitFileWrite(p) ==
    LET k == Inst(p)
        o == opts[k]
        i == fileIndex[p]
    IN  /\ pc[p] = "write"
        /\ \/ /\ wbuf' = [wbuf EXCEPT ![p] = wbuf[p] \o res[p].Output]
              /\ UNCHANGED files
           \/ /\ files' = Flush(files, i, wbuf[p] \o res[p].Output)
              /\ wbuf' = [wbuf EXCEPT ![p] = << >>]
        /\ numLabelsWritten' = [numLabelsWritten EXCEPT
               ![k] = FileOffset(o, i) + currentPosition[p] + batchSize[p]]
        /\ currentPosition' = [currentPosition EXCEPT ![p] = currentPosition[p] + batchSize[p]]
        /\ pc' = [pc EXCEPT ![p] = "batch"]
        /\ UNCHANGED <<meta, opts, nonceValue, nonce, lastPosition, mtx, instOf,
                       call, result, ctxDone, fileIndex, batchSize, res, searchPos,
                       requested, resumed, truncated, oraclePick, reported,
                   persisted, mainVars>>

\* every file is done and a nonce is retained: Initialize returns nil
InitializeDone(p) ==
    LET k == Inst(p)
    IN  /\ pc[p] = "file"
        /\ ~(fileIndex[p] < deriveFilesLayout(opts[k]).NumFiles)
        /\ nonce[k] # NoPos
        /\ Return(p, "nil", TRUE)
        /\ UNCHANGED <<diskVars, opts, nonceValue, nonce, lastPosition, numLabelsWritten,
                   instOf, call, wbuf, resumed, truncated, oraclePick, reported, persisted,
                   mainVars>>

\* where the extended search starts: the later of numLabels and lastPosition
SearchStart(o, lp) == IF lp = NoPos \/ lp < NumLabels(o) THEN NumLabels(o) ELSE lp

\* every file is done and no nonce is retained: the search goes on
InitializeSearchStart(p) ==
    LET k == Inst(p)
        o == opts[k]
    IN  /\ pc[p] = "file"
        /\ ~(fileIndex[p] < deriveFilesLayout(o).NumFiles)
        /\ nonce[k] = NoPos
        /\ lastPosition' = [lastPosition EXCEPT ![k] = SearchStart(o, lastPosition[k])]
        /\ searchPos' = [searchPos EXCEPT ![p] = SearchStart(o, lastPosition[k])]
        /\ pc' = [pc EXCEPT ![p] = "search"]
        /\ UNCHANGED <<diskVars, opts, nonceValue, nonce, numLabelsWritten, mtx,
                       instOf, call, result, ctxDone, fileIndex, currentPosition,
                       batchSize, res, wbuf, requested, resumed, truncated, oraclePick, reported,
                   persisted, mainVars>>

\* the loop condition i < math.MaxUint64 fails: "no nonce found"; the
\* deferred saveMetadata runs
SearchExhausted(p) ==
    LET k == Inst(p)
    IN  /\ pc[p] = "search"
        /\ ~(searchPos[p] < MaxUint64)
        /\ meta' = saveMetadata(opts[k], nonce[k], lastPosition[k])
        /\ Return(p, "ErrNoNonceFound", TRUE)
        /\ UNCHANGED <<files, opts, nonceValue, nonce, lastPosition, numLabelsWritten,
                   instOf, call, wbuf, resumed, truncated, oraclePick, reported, persisted,
                   mainVars>>

\* the search finds the context cancelled: the deferred saveMetadata runs
SearchCancelled(p) ==
    LET k == Inst(p)
    IN  /\ pc[p] = "search"
        /\ searchPos[p] < MaxUint64
        /\ CtxDone(p)
        /\ lastPosition' = [lastPosition EXCEPT ![k] = searchPos[p]]
        /\ meta' = saveMetadata(opts[k], nonce[k], searchPos[p])
        /\ Return(p, "Canceled", TRUE)
        /\ UNCHANGED <<files, opts, nonceValue, nonce, numLabelsWritten, instOf, call, wbuf,
                   resumed, truncated, oraclePick, reported, persisted, mainVars>>

\* the range i .. i+batchSize-1 of the extended search, in uint64 arithmetic
SearchEnd(o, i) == (i + o.ComputeBatchSize - 1) % PosModulus
SearchResult(o, pick, i) ==
    Positions(Commitment(o), Difficulty(o), pick, i, SearchEnd(o, i))

\* a batch of the extended search reports a nonce: it is stored, the
\* deferred saveMetadata runs, Initialize returns nil
SearchFound(p) ==
    LET k == Inst(p)
        o == opts[k]
        r == SearchResult(o, oraclePick, searchPos[p])
    IN  /\ pc[p] = "search"
        /\ searchPos[p] < MaxUint64
        /\ ~CtxDone(p)
        /\ r.Nonce # NoPos
        /\ lastPosition' = [lastPosition EXCEPT ![k] = searchPos[p]]
        /\ nonce' = [nonce EXCEPT ![k] = r.Nonce]
        /\ meta' = saveMetadata(o, r.Nonce, searchPos[p])
        /\ Return(p, "nil", TRUE)
        /\ reported' = [reported EXCEPT ![k] = reported[k] \cup {r.Nonce}]
        /\ UNCHANGED <<files, opts, nonceValue, numLabelsWritten, instOf, call, wbuf,
                   resumed, truncated, oraclePick, persisted, mainVars>>

\* a batch of the extended search reports nothing: i += batchSize
SearchMiss(p) ==
    LET k == Inst(p)
        o == opts[k]
        r == SearchResult(o, oraclePick, searchPos[p])
    IN  /\ pc[p] = "search"
        /\ searchPos[p] < MaxUint64
        /\ ~CtxDone(p)
        /\ r.Nonce = NoPos
        /\ lastPosition' = [lastPosition EXCEPT ![k] = searchPos[p]]
        /\ requested' = [requested EXCEPT
               ![p] = requested[p] \cup {<<searchPos[p], SearchEnd(o, searchPos[p])>>}]
        /\ searchPos' = [searchPos EXCEPT
               ![p] = (searchPos[p] + o.ComputeBatchSize) % PosModulus]
        /\ UNCHANGED <<diskVars, opts, nonceValue, nonce, numLabelsWritten, mtx,
                       instOf, pc, call, result, ctxDone, fileIndex, currentPosition,
                       batchSize, res, wbuf, resumed, truncated, oraclePick, reported,
                   persisted, mainVars>>

\* ----------------------------------------------------------------- Reset
\* a faulty variant: Reset, finding the lock held, removes the metadata file all the same
ResetBusyRemoves(p) ==
    /\ pc[p] = "idle"
    /\ ~TryLock(p)
    /\ Call(p, "Reset")
    /\ Return(p, "ErrCannotResetWhileInitializing", FALSE)
    /\ meta' = NoMetadata
    /\ UNCHANGED <<files, opts, nonceValue, nonce, lastPosition, numLabelsWritten,
                   instOf, wbuf, oraclePick, reported, persisted, mainVars>>

\* Reset finds the lock held
ResetBusy(p) ==
    /\ pc[p] = "idle"
    /\ ~TryLock(p)
    /\ Call(p, "Reset")
    /\ Return(p, "ErrCannotResetWhileInitializing", FALSE)
    /\ UNCHANGED <<diskVars, opts, nonceValue, nonce, lastPosition, numLabelsWritten,
                   instOf, wbuf, oraclePick, reported, persisted, mainVars>>

\* Reset takes the lock
ResetBegin(p) ==
    /\ pc[p] = "idle"
    /\ TryLock(p)
    /\ Call(p, "Reset")
    /\ mtx' = [mtx EXCEPT ![Inst(p)] = p]
    /\ pc' = [pc EXCEPT ![p] = "reset"]
    /\ result' = [result EXCEPT ![p] = "running"]
    /\ UNCHANGED <<diskVars, opts, nonceValue, nonce, lastPosition, numLabelsWritten,
                   instOf, ctxDone, fileIndex, currentPosition, batchSize, res, wbuf,
                   searchPos, requested, oraclePick, reported, persisted, mainVars>>

\* a faulty variant: Reset removes the label files and leaves the metadata file
ResetRunKeepsMetadata(p) ==
    /\ pc[p] = "reset"
    /\ files' = RemoveFiles(files, DOMAIN files)
    /\ meta' = meta
    /\ Return(p, "nil", TRUE)
    /\ persisted' = {}
    /\ UNCHANGED <<opts, nonceValue, nonce, lastPosition, numLabelsWritten, instOf,
                   call, wbuf, resumed, truncated, oraclePick, reported, mainVars>>

\* Reset removes every label file and the metadata file, and returns
ResetRun(p) ==
    /\ pc[p] = "reset"
    /\ files' = RemoveFiles(files, DOMAIN files)
    /\ meta' = NoMetadata
    /\ Return(p, "nil", TRUE)
    /\ persisted' = {}
    /\ UNCHANGED <<opts, nonceValue, nonce, lastPosition, numLabelsWritten, instOf,
                   call, wbuf, resumed, truncated, oraclePick, reported, mainVars>>

\* ---------------------------------------------------------------- Status
\* Status finds the lock held
StatusBusy(p) ==
    /\ pc[p] = "idle"
    /\ ~TryLock(p)
    /\ Call(p, "Status")
    /\ Return(p, "StatusInitializing", FALSE)
    /\ UNCHANGED <<diskVars, opts, nonceValue, nonce, lastPosition, numLabelsWritten,
                   instOf, wbuf, oraclePick, reported, persisted, mainVars>>

\* Status takes the lock
StatusBegin(p) ==
    /\ pc[p] = "idle"
    /\ TryLock(p)
    /\ Call(p, "Status")
    /\ mtx' = [mtx EXCEPT ![Inst(p)] = p]
    /\ pc' = [pc EXCEPT ![p] = "status"]
    /\ result' = [result EXCEPT ![p] = "running"]
    /\ UNCHANGED <<diskVars, opts, nonceValue, nonce, lastPosition, numLabelsWritten,
                   instOf, ctxDone, fileIndex, currentPosition, batchSize, res, wbuf,
                   searchPos, requested, oraclePick, reported, persisted, mainVars>>

\* the classification Status makes of the disk state
StatusOf(o, fs) ==
    IF DiskNumLabelsWritten(fs) = NumLabels(o) THEN "StatusCompleted"
    ELSE IF DiskNumLabelsWritten(fs) > 0 THEN "StatusStarted"
    ELSE "StatusNotStarted"

\* Status reads the disk state, classifies it and returns
StatusRun(p) ==
    /\ pc[p] = "status"
    /\ Return(p, StatusOf(opts[Inst(p)], files), TRUE)
    /\ UNCHANGED <<diskVars, opts, nonceValue, nonce, lastPosition, numLabelsWritten,
                   instOf, call, wbuf, resumed, truncated, oraclePick, reported, persisted,
                   mainVars>>

\* ------------------------------------------------------------- environment
Running(p) == pc[p] \in {"file", "batch", "nonce", "write", "search"}

\* the caller cancels the context of a running Initialize
Cancel(p) ==
    /\ Running(p)
    /\ ~ctxDone[p]
    /\ ctxDone' = [ctxDone EXCEPT ![p] = TRUE]
    /\ UNCHANGED <<diskVars, instVars, instOf, pc, call, result, fileIndex,
                   currentPosition, batchSize, res, wbuf, searchPos, requested,
                   resumed, truncated, oraclePick, reported,
                   persisted, mainVars>>

NoInst == [k \in Insts |-> 0]

\* the process dies: every instance and every call in progress is gone, and
\* so are the bytes still in a writer's buffer; the directory stays
Crash ==
    /\ \E p \in Procs : pc[p] \notin {"off", "none"}
    /\ pc' = [p \in Procs |-> IF pc[p] = "off" THEN "off" ELSE "none"]
    /\ opts' = [k \in Insts |-> NoOpts]
    /\ nonceValue' = [k \in Insts |-> NoBytes]
    /\ nonce' = [k \in Insts |-> NoPos]
    /\ lastPosition' = [k \in Insts |-> NoPos]
    /\ numLabelsWritten' = NoInst
    /\ mtx' = NoInst
    /\ call' = [p \in Procs |-> "none"]
    /\ result' = [p \in Procs |-> "none"]
    /\ ctxDone' = [p \in Procs |-> FALSE]
    /\ fileIndex' = [p \in Procs |-> 0]
    /\ currentPosition' = [p \in Procs |-> 0]
    /\ batchSize' = [p \in Procs |-> 0]
    /\ res' = [p \in Procs |-> NoRes]
    /\ wbuf' = [p \in Procs |-> << >>]
    /\ searchPos' = [p \in Procs |-> 0]
    /\ requested' = [p \in Procs |-> {}]
    /\ resumed' = [p \in Procs |-> FALSE]
    /\ truncated' = [p \in Procs |-> {}]
    /\ reported' = [k \in Insts |-> {}]
    /\ UNCHANGED <<diskVars, instOf, oraclePick,
                   persisted, mainVars>>

\* ------------------------------------------------------------ specification
\* an empty data directory
InitDisk ==
    /\ files = << >>
    /\ meta = NoMetadata
    /\ persisted = {}

\* no instance is constructed
InitInsts ==
    /\ opts = [k \in Insts |-> NoOpts]
    /\ nonceValue = [k \in Insts |-> NoBytes]
    /\ nonce = [k \in Insts |-> NoPos]
    /\ lastPosition = [k \in Insts |-> NoPos]
    /\ numLabelsWritten = NoInst
    /\ mtx = NoInst
    /\ reported = [k \in Insts |-> {}]

\* the processes stand at position at and have made no call; process p
\* calls the instance insts[p]; the provider reports as one of picks says
InitProcs(at, insts, picks) ==
    /\ instOf = insts
    /\ pc = at
    /\ call = [p \in Procs |-> "none"]
    /\ result = [p \in Procs |-> "none"]
    /\ ctxDone = [p \in Procs |-> FALSE]
    /\ fileIndex = [p \in Procs |-> 0]
    /\ currentPosition = [p \in Procs |-> 0]
    /\ batchSize = [p \in Procs |-> 0]
    /\ res = [p \in Procs |-> NoRes]
    /\ wbuf = [p \in Procs |-> << >>]
    /\ searchPos = [p \in Procs |-> 0]
    /\ requested = [p \in Procs |-> {}]
    /\ resumed = [p \in Procs |-> FALSE]
    /\ truncated = [p \in Procs |-> {}]
    /\ oraclePick \in picks

\* main at position at, started with the options o and n provider ids
InitMain(at, o, n) ==
    /\ mainPc = at
    /\ mainOpts = o
    /\ providers = n
    /\ mainW = 0
    /\ mainA = 0
    /\ results = 0
    /\ doOpts = [p \in Procs |-> NoOpts]

\* one process: it constructs an Initializer, calls it, is cancelled, crashes
\* and starts over on the directory it left
Init ==
    /\ InitDisk
    /\ InitInsts
    /\ InitProcs([p \in Procs |-> IF p = 1 THEN "none" ELSE "off"], [p \in Procs |-> p],
                 {"first", "best"})
    /\ InitMain("off", NoOpts, 0)

Next ==
    \/ \E o \in Configs : NewInitializer(1, o)
    \/ \E o \in Configs : NewInitializerFails(1, o)
    \/ InitializeBegin(1)
    \/ InitFileComplete(1)
    \/ InitFileTruncate(1)
    \/ InitFileStart(1)
    \/ InitFileDone(1)
    \/ InitFileCancelled(1)
    \/ InitFileRequest(1)
    \/ InitFileNewBestNonce(1)
    \/ InitFileKeepNonce(1)
    \/ InitFileWrite(1)
    \/ InitializeDone(1)
    \/ InitializeSearchStart(1)
    \/ SearchExhausted(1)
    \/ SearchCancelled(1)
    \/ SearchFound(1)
    \/ SearchMiss(1)
    \/ ResetBegin(1)
    \/ ResetRun(1)
    \/ StatusBegin(1)
    \/ StatusRun(1)
    \/ Cancel(1)
    \/ Crash

Spec == Init /\ [][Next]_vars

\* the same process on a directory that is never reset: the life of an
\* instance is a sequence of Initialize and Status calls
NextRun ==
    \/ \E o \in Configs : NewInitializer(1, o)
    \/ \E o \in Configs : NewInitializerFails(1, o)
    \/ InitializeBegin(1)
    \/ InitFileComplete(1)
    \/ InitFileTruncate(1)
    \/ InitFileStart(1)
    \/ InitFileDone(1)
    \/ InitFileCancelled(1)
    \/ InitFileRequest(1)
    \/ InitFileNewBestNonce(1)
    \/ InitFileKeepNonce(1)
    \/ InitFileWrite(1)
    \/ InitializeDone(1)
    \/ InitializeSearchStart(1)
    \/ SearchExhausted(1)
    \/ SearchCancelled(1)
    \/ SearchFound(1)
    \/ SearchMiss(1)
    \/ StatusBegin(1)
    \/ StatusRun(1)
    \/ Cancel(1)
    \/ Crash

SpecRun == Init /\ [][NextRun]_vars

\* --------------------------------------------- one instance, several callers
\* the processes that call the one instance
Callers == 1..MaxCallers

\* NewInitializer has returned the instance 1 on an empty directory; every
\* caller holds it and is about to call it
LockConfigs ==
    {InitOpts(id, atx, LabelsPerUnit, LockUnits, MaxFileSize, ComputeBatchSize) :
        id \in NodeIds, atx \in 1..2}

InitLock ==
    \E o \in LockConfigs :
        /\ files = << >>
        /\ meta = saveMetadata(o, NoPos, NoPos)
        /\ persisted = {}
        /\ opts = [k \in Insts |-> IF k = 1 THEN o ELSE NoOpts]
        /\ nonceValue = [k \in Insts |-> NoBytes]
        /\ nonce = [k \in Insts |-> NoPos]
        /\ lastPosition = [k \in Insts |-> NoPos]
        /\ numLabelsWritten = NoInst
        /\ mtx = NoInst
        /\ reported = [k \in Insts |-> {}]
        /\ InitProcs([p \in Procs |-> IF p \in Callers THEN "idle" ELSE "off"],
                     [p \in Procs |-> 1], {"first", "best"})
        /\ InitMain("off", NoOpts, 0)

\* (no file ever holds more labels than its share here, so initFile's
\* truncation has no part)
NextLock ==
    \E p \in Callers :
        \/ InitializeBusy(p)
        \/ InitializeBegin(p)
        \/ InitFileComplete(p)
        \/ InitFileStart(p)
        \/ InitFileDone(p)
        \/ InitFileCancelled(p)
        \/ InitFileRequest(p)
        \/ InitFileNewBestNonce(p)
        \/ InitFileKeepNonce(p)
        \/ InitFileWrite(p)
        \/ InitializeDone(p)
        \/ InitializeSearchStart(p)
        \/ SearchExhausted(p)
        \/ SearchCancelled(p)
        \/ SearchFound(p)
        \/ SearchMiss(p)
        \/ ResetBusy(p)
        \/ ResetBegin(p)
        \/ ResetRun(p)
        \/ StatusBusy(p)
        \/ StatusBegin(p)
        \/ StatusRun(p)
        \/ Cancel(p)

SpecLock == InitLock /\ [][NextLock]_vars

\* ------------------------------------------------------------ orchestrator
\* opts.TotalFiles(cfg.LabelsPerUnit)
TotalFiles(o) == deriveFilesLayout(o).NumFiles

\* each_Files := totalFiles / ProviderIDs_len
EachFiles(totalFiles, n) == totalFiles \div n

\* opts.FromFileIdx of the w-th iteration of main's loop
FromFileIdx(totalFiles, n, w) == w * EachFiles(totalFiles, n)

\* a faulty variant: the last range ends like the others
ToFileIdxEven(totalFiles, n, w) == (w + 1) * EachFiles(totalFiles, n) - 1

\* *opts.ToFileIdx of the w-th iteration of main's loop
ToFileIdx(totalFiles, n, w) ==
    IF w = n - 1 THEN totalFiles - 1
    ELSE (w + 1) * EachFiles(totalFiles, n) - 1

\* an iteration of main's loop over the provider ids: the range and the
\* provider are set in opts and do() is started with a copy of it
MainLaunch ==
    LET totalFiles == TotalFiles(mainOpts)
        w == mainW
        o == [mainOpts EXCEPT !.FromFileIdx = FromFileIdx(totalFiles, providers, w),
                              !.ToFileIdx = ToFileIdx(totalFiles, providers, w),
                              !.ProviderID = w]
    IN  /\ mainPc = "launch"
        /\ w < providers
        /\ mainOpts' = o
        /\ doOpts' = [doOpts EXCEPT ![w + 1] = o]
        /\ pc' = [pc EXCEPT ![w + 1] = "none"]
        /\ mainW' = w + 1
        /\ UNCHANGED <<diskVars, instVars, instOf, call, result, ctxDone, fileIndex,
                       currentPosition, batchSize, res, wbuf, searchPos, requested,
                       resumed, truncated, oraclePick, reported, persisted, mainPc, providers,
                       mainA, results>>

\* main's loop over the provider ids ends; main goes on to receive from results
MainLaunchEnd ==
    /\ mainPc = "launch"
    /\ ~(mainW < providers)
    /\ mainPc' = "join"
    /\ UNCHANGED <<diskVars, instVars, instOf, procVars, oraclePick, reported,
                   persisted, mainOpts, providers, mainW, mainA, results, doOpts>>

\* do(): NewInitializer with the options do() was given
DoNewInitializer(p) ==
    /\ doOpts[p] # NoOpts
    /\ NewInitializer(p, doOpts[p])

\* do(): init.Initialize(ctx) on the instance just constructed
DoInitialize(p) ==
    /\ call[p] = "NewInitializer"
    /\ InitializeBegin(p)

\* the file sizes main is started with
MainFileSizes == {k * LabelBytes : k \in 1..(MaxFileSize \div LabelBytes + 2)}

\* the options main is started with
MainConfigs ==
    {InitOpts(id, 1, LabelsPerUnit, u, mfs, ComputeBatchSize) :
        id \in NodeIds, u \in 1..MaxUnits, mfs \in MainFileSizes}

\* main is about to enter its loop over the provider ids
InitLaunch ==
    /\ InitDisk
    /\ InitInsts
    /\ InitProcs([p \in Procs |-> "off"], [p \in Procs |-> p], {"best"})
    /\ \E o \in MainConfigs, n \in 1..MaxProcs : InitMain("launch", o, n)

NextMain == MainLaunch \/ MainLaunchEnd

SpecMain == InitLaunch /\ [][NextMain]_vars

\* ------------------------------------------------- partitions, concurrently
\* main is started with PartProviders provider ids on an empty directory
InitPart ==
    /\ InitDisk
    /\ InitInsts
    /\ InitProcs([p \in Procs |-> "off"], [p \in Procs |-> p], {"best"})
    /\ \E id \in NodeIds :
           InitMain("launch",
                    InitOpts(id, 1, LabelsPerUnit, MaxUnits, MaxFileSize, ComputeBatchSize),
                    PartProviders)

\* (every worker calls Initialize once, on files it finds short of their
\* share, with a configuration whose search ends in a nonce: initFile's
\* truncation and the exhausted search have no part)
NextPart ==
    \/ MainLaunch
    \/ MainLaunchEnd
    \/ \E p \in Procs :
        \/ DoNewInitializer(p)
        \/ DoInitialize(p)
        \/ InitFileComplete(p)
        \/ InitFileStart(p)
        \/ InitFileDone(p)
        \/ InitFileRequest(p)
        \/ InitFileNewBestNonce(p)
        \/ InitFileKeepNonce(p)
        \/ InitFileWrite(p)
        \/ InitializeDone(p)
        \/ InitializeSearchStart(p)
        \/ SearchFound(p)
        \/ SearchMiss(p)

SpecPart == InitPart /\ [][NextPart]_vars

\* ------------------------------------------------------- main, to its end
\* main's loop `for a := 0; a < ProviderIDs_len; a++ { <-results }`: each
\* round waits for a value on results; after the last round main returns
MainJoin ==
    /\ mainPc = "join"
    /\ IF mainA < providers
       THEN /\ results > 0
            /\ results' = results - 1
            /\ mainA' = mainA + 1
            /\ mainPc' = mainPc
       ELSE /\ mainPc' = "done"
            /\ UNCHANGED <<results, mainA>>
    /\ UNCHANGED <<diskVars, instVars, instOf, procVars, oraclePick, reported,
                   persisted, mainOpts, providers, mainW, doOpts>>

\* the goroutine of main: its step is the one its position allows
Main == IF mainPc = "launch" THEN MainLaunch \/ MainLaunchEnd ELSE MainJoin

\* the goroutine of worker p: do(), which constructs an Initializer, calls
\* Initialize once and returns; nothing in do() sends on results
Do(p) ==
    \/ DoNewInitializer(p)
    \/ DoInitialize(p)
    \/ InitFileComplete(p)
    \/ InitFileStart(p)
    \/ InitFileDone(p)
    \/ InitFileCancelled(p)
    \/ InitFileRequest(p)
    \/ InitFileNewBestNonce(p)
    \/ InitFileKeepNonce(p)
    \/ InitFileWrite(p)
    \/ InitializeDone(p)
    \/ InitializeSearchStart(p)
    \/ SearchExhausted(p)
    \/ SearchCancelled(p)
    \/ SearchFound(p)
    \/ SearchMiss(p)

\* main is started with PartProviders provider ids on an empty directory
InitJoin ==
    /\ InitDisk
    /\ InitInsts
    /\ InitProcs([p \in Procs |-> "off"], [p \in Procs |-> p], {"best"})
    /\ \E o \in LockConfigs : InitMain("launch", o, PartProviders)

\* the workers run concurrently with main; an interrupt cancels a worker's
\* context
NextJoin ==
    \/ Main
    \/ \E p \in Procs : Do(p)
    \/ \E p \in Procs : Cancel(p)

\* the Go scheduler lets every goroutine that can take a step take one
FairJoin == WF_vars(Main) /\ \A p \in Procs : WF_vars(Do(p))

SpecJoin == InitJoin /\ [][NextJoin]_vars /\ FairJoin

\* ================================================================== claims
\* a call of process p to op has returned r and p has made no call since
Returned(p, op, r) == pc[p] = "idle" /\ call[p] = op /\ result[p] = r

\* process p takes part in the step (the step is not a crash)
Moves(p) ==
    /\ pc'[p] # "none"
    /\ \/ pc'[p] # pc[p]
       \/ call'[p] # call[p]
       \/ result'[p] # result[p]
       \/ fileIndex'[p] # fileIndex[p]
       \/ searchPos'[p] # searchPos[p]
       \/ requested'[p] # requested[p]

\* the bytes initFile leaves in file i when it writes it batch by batch in
\* one go, from position on
RECURSIVE UninterruptedFile(_, _, _, _)
UninterruptedFile(o, i, position, batch) ==
    IF ~(position < FileTarget(o, i)) THEN << >>
    ELSE LET remaining == FileTarget(o, i) - position
             size == IF remaining < batch THEN remaining ELSE batch
             start == FileOffset(o, i) + position
         IN  RangeOutput(Commitment(o), start, start + size - 1)
                 \o UninterruptedFile(o, i, position + size, size)

\* the directory a single uninterrupted Initialize of o leaves
UninterruptedRun(o) ==
    [i \in 0..(deriveFilesLayout(o).NumFiles - 1) |->
        UninterruptedFile(o, i, 0, o.ComputeBatchSize)]

\* C1: idempotent resume.  Whenever Initialize returns nil, whatever
\* cancellations and crashes (each followed by a new Initializer and a new
\* Initialize) came before, the label files hold exactly the bytes a single
\* uninterrupted Initialize of that configuration leaves.
C1_IdempotentResume ==
    \A p \in Procs :
        Returned(p, "Initialize", "nil") => files = UninterruptedRun(opts[Inst(p)])

\* C1 witness: an Initialize that continued a partly written file returned nil
C1_Witness ==
    \E p \in Procs : Returned(p, "Initialize", "nil") /\ resumed[p]

VerifyConfigs ==
    {InitOpts(id, atx, lpu, u, mfs, ComputeBatchSize) :
        id \in NodeIds, atx \in 1..2, lpu \in {LabelsPerUnit, LabelsPerUnit + 1},
        u \in 1..(MaxUnits + 1), mfs \in {MaxFileSize, MaxFileSize + 16}}

\* the Param verify is to name first, with the NumUnits condition given
FirstMismatch(o, m, numUnitsBad) ==
    CASE o.NodeId # m.NodeId -> "NodeId"
      [] o.NodeId = m.NodeId /\ o.CommitmentAtxId # m.CommitmentAtxId -> "CommitmentAtxId"
      [] o.NodeId = m.NodeId /\ o.CommitmentAtxId = m.CommitmentAtxId
            /\ o.LabelsPerUnit # m.LabelsPerUnit -> "LabelsPerUnit"
      [] o.NodeId = m.NodeId /\ o.CommitmentAtxId = m.CommitmentAtxId
            /\ o.LabelsPerUnit = m.LabelsPerUnit
            /\ o.MaxFileSize # m.MaxFileSize -> "MaxFileSize"
      [] OTHER -> IF numUnitsBad THEN "NumUnits" ELSE "nil"

NonceValueOf(o, n) == Label(Commitment(o), n)

\* a is the nonce b or one with a strictly smaller value
AsGood(o, a, b) ==
    a # NoPos /\ (a = b \/ BytesCompare(NonceValueOf(o, a), NonceValueOf(o, b)) < 0)

\* C8: nonce monotonicity.  While an instance lives, the value of its
\* retained nonce never increases from one step to the next, and once the
\* oracle has reported candidates to the instance the retained nonce is one
\* of them and its value is the byte-wise minimum of theirs.
C8_NonceMonotone ==
    /\ [][\A k \in Insts :
            (opts[k] # NoOpts /\ opts'[k] = opts[k] /\ nonce[k] # NoPos) =>
                AsGood(opts[k], nonce'[k], nonce[k])]_vars
    /\ [](\A k \in Insts :
            reported[k] # {} =>
                /\ nonce[k] \in reported[k]
                /\ \A n \in reported[k] : AsGood(opts[k], nonce[k], n))

\* C9: a better nonce is never lost.  A step of the file loop that replaces
\* the retained best saves metadata holding the new nonce and neither appends
\* labels nor asks the oracle; the nonce the metadata holds is never replaced
\* by one of a larger value; and when Initialize returns nil, after whatever
\* crashes and cancellations, the retained nonce is as good as every nonce
\* that was saved as a new best for that directory.
C9_BetterNonceNeverLost ==
    /\ [][\A p \in Procs :
            (pc[p] = "nonce" /\ nonce'[Inst(p)] # nonce[Inst(p)] /\ Moves(p)) =>
                /\ meta' # NoMetadata /\ meta'[1].Nonce = nonce'[Inst(p)]
                /\ files' = files /\ wbuf' = wbuf /\ requested' = requested]_vars
    /\ [][\A k \in Insts :
            (/\ opts'[k] # NoOpts
             /\ meta # NoMetadata /\ meta' # NoMetadata
             /\ meta[1].Nonce # NoPos /\ meta'[1].Nonce # NoPos
             /\ Commitment(meta[1]) = Commitment(meta'[1])) =>
                AsGood(meta'[1], meta'[1].Nonce, meta[1].Nonce)]_vars
    /\ [](\A p \in Procs :
            Returned(p, "Initialize", "nil") =>
                \A n \in persisted : AsGood(opts[Inst(p)], nonce[Inst(p)], n))

\* the label at position pos of the layout of o is in its file
OnDisk(o, fs, pos) ==
    LET per == deriveFilesLayout(o).FileNumLabels
        j == pos \div per
    IN  j \in DOMAIN fs /\ FileNumLabelsWritten(fs[j]) > pos % per

\* the loop of p stands before a batch that is still to be done
BeforeBatch(p) ==
    \/ /\ pc[p] = "batch"
       /\ currentPosition[p] < FileTarget(opts[Inst(p)], fileIndex[p])
    \/ pc[p] = "search" /\ searchPos[p] < MaxUint64

\* C10: cancellation.  When the loop of Initialize stands before a batch and
\* its context is cancelled, its next step is the return of the cancellation
\* error: it asks the oracle for nothing and brings to the file only what the
\* writer had buffered, after which every file holds whole labels and every
\* batch the call asked for is in its file entirely.  And the position a
\* batch starts at is always the number of labels written to the file so
\* far, so a later Initialize goes on at the first unwritten batch.
C10_CancelBeforeEveryBatch ==
    /\ [][\A p \in Procs :
            (BeforeBatch(p) /\ ctxDone[p] /\ Moves(p)) =>
                /\ pc'[p] = "idle" /\ result'[p] = "Canceled"
                /\ files' = IF pc[p] = "batch"
                            THEN Flush(files, fileIndex[p], wbuf[p]) ELSE files
                /\ \A i \in DOMAIN files' : Len(files'[i]) % LabelBytes = 0
                /\ pc[p] = "batch" =>
                       \A r \in requested[p] :
                           \A pos \in r[1]..r[2] : OnDisk(opts[Inst(p)], files', pos)]_vars
    /\ [](\A p \in Procs :
            pc[p] \in {"batch", "nonce", "write"} =>
                currentPosition[p] * LabelBytes =
                    Len(files[fileIndex[p]]) + Len(wbuf[p]))

\* C10 witness: Initialize returned the cancellation error and left a file
\* partly written
C10_Witness ==
    \E p \in Procs :
        /\ Returned(p, "Initialize", "Canceled")
        /\ \E i \in DOMAIN files :
               /\ 0 < FileNumLabelsWritten(files[i])
               /\ FileNumLabelsWritten(files[i]) < FileTarget(opts[Inst(p)], i)

\* the call of p is inside the section Initialize and Reset run under the lock
InLockedSection(p) == pc[p] \in {"file", "batch", "nonce", "write", "search", "reset"}

\* C4: mutual exclusion.  Of the processes calling one instance at most one
\* is inside the locked section of Initialize or Reset at any time, and the
\* one that is holds the instance's lock.
C4_MutualExclusion ==
    \A p \in Procs :
        InLockedSection(p) =>
            /\ mtx[Inst(p)] = p
            /\ \A q \in Procs \ {p} : Inst(q) = Inst(p) => ~InLockedSection(q)

\* C4 witness: one caller is inside Initialize's loop and another was turned
\* away by Initialize
C4_Witness ==
    \E p, q \in Procs :
        /\ p # q /\ Inst(p) = Inst(q)
        /\ pc[p] = "write"
        /\ Returned(q, "Initialize", "ErrAlreadyInitializing")

\* another process is inside Initialize or Reset on the instance of p
OtherInProgress(p) ==
    \E q \in Procs \ {p} : Inst(q) = Inst(p) /\ InLockedSection(q)

\* C5: fail-fast.  While another call of Initialize or Reset is in progress
\* on the instance, a call of Initialize or Reset returns in its first step,
\* Initialize with ErrAlreadyInitializing and Reset with
\* ErrCannotResetWhileInitializing, and that step changes no label file, not
\* the metadata file, and not the instance's nonce, nonce value, progress
\* counter or lock.
C5_FailFast ==
    [][\A p \in Procs :
        (/\ pc[p] = "idle" /\ OtherInProgress(p) /\ Moves(p)
         /\ call'[p] \in {"Initialize", "Reset"}) =>
            /\ pc'[p] = "idle"
            /\ result'[p] = IF call'[p] = "Initialize" THEN "ErrAlreadyInitializing"
                            ELSE "ErrCannotResetWhileInitializing"
            /\ files' = files /\ meta' = meta
            /\ nonce' = nonce /\ nonceValue' = nonceValue
            /\ lastPosition' = lastPosition
            /\ numLabelsWritten' = numLabelsWritten
            /\ mtx' = mtx]_vars

\* C5 witness: Reset was turned away while Initialize was writing
C5_Witness ==
    \E p, q \in Procs :
        /\ p # q /\ Inst(p) = Inst(q)
        /\ pc[p] \in {"batch", "nonce", "write"}
        /\ Returned(q, "Reset", "ErrCannotResetWhileInitializing")

\* file i is within the range the options o give
InRange(o, i) == o.FromFileIdx <= i /\ i <= o.ToFileIdx

\* the step creates, removes or changes file i
Touched(i) ==
    \/ (i \in DOMAIN files) # (i \in DOMAIN files')
    \/ i \in DOMAIN files /\ i \in DOMAIN files' /\ files'[i] # files[i]

\* every worker main started has returned nil from Initialize
AllPartitionsDone ==
    /\ mainPc = "join"
    /\ \A p \in 1..providers : Returned(p, "Initialize", "nil")

\* C6: partitions.  A step of an Initializer creates, truncates, removes or
\* appends to a label file only if the file's index is within the instance's
\* range [FromFileIdx, ToFileIdx]; and once every partition has returned nil,
\* every file of the layout holds exactly its labels.
C6_PartitionsDisjoint ==
    /\ [][\A p \in Procs :
            (pc[p] \notin {"off", "none"} /\ Moves(p)) =>
                \A i \in (DOMAIN files) \cup (DOMAIN files') :
                    Touched(i) => InRange(opts[Inst(p)], i)]_vars
    /\ [](AllPartitionsDone => files = UninterruptedRun(mainOpts))

\* the range main gave the w-th worker
RangeOf(w) == doOpts[w + 1].FromFileIdx .. doOpts[w + 1].ToFileIdx

\* C7: the ranges of main.  The ranges given so far start at 0 and each
\* starts right after the one before, no two overlap, every range but the
\* last has num_files / n indices and the last has these and the remainder,
\* and once all are given they cover exactly 0 .. num_files - 1.
C7_PartitionRanges ==
    LET total == TotalFiles(mainOpts)
        n == providers
        From(w) == doOpts[w + 1].FromFileIdx
        To(w) == doOpts[w + 1].ToFileIdx
    IN  mainPc \in {"launch", "join"} =>
            /\ \A w \in 0..(mainW - 1) :
                   /\ From(w) = IF w = 0 THEN 0 ELSE To(w - 1) + 1
                   /\ To(w) - From(w) + 1 =
                          IF w = n - 1 THEN (total \div n) + (total % n) ELSE total \div n
                   /\ \A v \in 0..(w - 1) : RangeOf(v) \cap RangeOf(w) = {}
            /\ mainPc = "join" =>
                   UNION {RangeOf(w) : w \in 0..(n - 1)} = 0..(total - 1)

\* C7 witness: main gave out three ranges of a layout whose number of files
\* is no multiple of three
C7_Witness ==
    /\ mainPc = "join"
    /\ providers = 3
    /\ TotalFiles(mainOpts) % 3 # 0
    /\ TotalFiles(mainOpts) > 3

\* file i of the directory fs holds exactly the labels the layout of o gives it
FileIsComplete(o, fs, i) ==
    i \in DOMAIN fs /\ FileNumLabelsWritten(fs[i]) = FileTarget(o, i)

\* file i of the directory fs holds some but not all of its labels
FileIsPartial(o, fs, i) ==
    /\ i \in DOMAIN fs
    /\ 0 < FileNumLabelsWritten(fs[i])
    /\ FileNumLabelsWritten(fs[i]) < FileTarget(o, i)

\* file 0 is complete, file 1 is partly written and there is no other file
MidSecondFile(o, fs) ==
    /\ DOMAIN fs = {0, 1}
    /\ FileIsComplete(o, fs, 0)
    /\ FileIsPartial(o, fs, 1)

\* C11: a complete file is a no-op.  When Initialize comes to a file that
\* holds exactly its target number of labels, its step leaves every file as
\* it is, asks the oracle for nothing and goes on to the next file; and when
\* file 0 is complete and file 1 partly written, Status returns Started.
C11_CompleteFileNoOp ==
    [][\A p \in Procs :
        /\ (/\ pc[p] = "file" /\ Moves(p)
            /\ fileIndex[p] < deriveFilesLayout(opts[Inst(p)]).NumFiles
            /\ FileIsComplete(opts[Inst(p)], files, fileIndex[p])) =>
               /\ files' = files
               /\ requested'[p] = requested[p]
               /\ pc'[p] = "file"
               /\ fileIndex'[p] = fileIndex[p] + 1
        /\ (/\ pc[p] = "status" /\ Moves(p)
            /\ MidSecondFile(opts[Inst(p)], files)) =>
               result'[p] = "StatusStarted"]_vars

\* C11 witness: after a run that stopped in the middle of file 1, a new call
\* of Initialize has passed file 0 without a request and stands at file 1
C11_Witness ==
    \E p \in Procs :
        /\ pc[p] = "file" /\ fileIndex[p] = 1 /\ requested[p] = {}
        /\ MidSecondFile(opts[Inst(p)], files)

\* file i of the directory fs holds more labels than the layout of o gives it
FileIsTooLong(o, fs, i) ==
    i \in DOMAIN fs /\ FileNumLabelsWritten(fs[i]) > FileTarget(o, i)

\* C12: truncation.  When Initialize comes to a file that holds more labels
\* than its target, its step cuts the file to exactly the target number of
\* labels, these being the first ones the file held, changes no other file,
\* asks the oracle for nothing and goes on to the next file.
C12_Truncation ==
    [][\A p \in Procs :
        (/\ pc[p] = "file" /\ Moves(p)
         /\ fileIndex[p] < deriveFilesLayout(opts[Inst(p)]).NumFiles
         /\ FileIsTooLong(opts[Inst(p)], files, fileIndex[p])) =>
            LET o == opts[Inst(p)]
                i == fileIndex[p]
            IN  /\ DOMAIN files' = DOMAIN files
                /\ FileNumLabelsWritten(files'[i]) = FileTarget(o, i)
                /\ files'[i] = SubSeq(files[i], 1, FileTarget(o, i) * LabelBytes)
                /\ \A j \in DOMAIN files \ {i} : files'[j] = files[j]
                /\ requested'[p] = requested[p]
                /\ pc'[p] = "file"
                /\ fileIndex'[p] = i + 1]_vars

\* C12 witness: Initialize has truncated a file, asked the oracle for nothing
\* about it and returned nil
C12_Witness ==
    \E p \in Procs :
        /\ Returned(p, "Initialize", "nil")
        /\ truncated[p] # {}
        /\ \A i \in truncated[p] : FileIsComplete(opts[Inst(p)], files, i)

\* ------------------------------------------------------------------- C13
\* process p's Initialize is in its extended search
InSearch(p) == pc[p] = "search"

C14_SearchCheckpointed ==
    [][\A p \in Procs :
          LET k == Inst(p)
              o == opts[k]
          IN  /\ (InSearch(p) /\ InSearch(p)' /\ searchPos'[p] # searchPos[p])
                 => /\ meta' # NoMetadata
                    /\ meta'[1].LastPosition = searchPos[p]
              /\ (pc[p] = "file" /\ InSearch(p)' /\ meta # NoMetadata)
                 => searchPos'[p] = SearchStart(o, meta[1].LastPosition)]_vars

\* ------------------------------------------------------------------- C15
\* C15: a Status() call that finds the lock free returns Completed only
\* when the written-label count equals total_labels and a nonce is retained,
\* Started when labels are written and the run is not complete, NotStarted
\* when no label is written
C15_StatusCompletedHasNonce ==
    [][\A p \in Procs :
          LET k == Inst(p)
              o == opts[k]
              n == DiskNumLabelsWritten(files)
          IN  (pc[p] = "status" /\ Moves(p))
              => /\ result'[p] = "StatusCompleted"
                    => (n = NumLabels(o) /\ nonce[k] # NoPos)
                 /\ (n > 0 /\ ~(n = NumLabels(o) /\ nonce[k] # NoPos))
                    => result'[p] = "StatusStarted"
                 /\ n = 0 => result'[p] = "StatusNotStarted"]_vars

\* ------------------------------------------------------------------- C16
\* process p starts a call of op in this step
Calls(p, op) == pc[p] = "idle" /\ Moves(p) /\ call'[p] = op

\* C16: a Status() call returns Initializing exactly when a call of
\* Initialize or Reset on the instance holds the lock at that moment
C16_InitializingIffWriterHoldsLock ==
    [][\A p \in Procs :
          Calls(p, "Status")
          => ((pc'[p] = "idle" /\ result'[p] = "StatusInitializing")
              <=> OtherInProgress(p))]_vars

\* ------------------------------------------------------------------- C20
\* C20: Initialize returns ErrAlreadyInitializing, and Reset returns
\* ErrCannotResetWhileInitializing, only while another call of Initialize or
\* Reset on the instance holds the lock; a concurrent Status() is no cause
C20_BusyOnlyBehindWriter ==
    [][\A p \in Procs :
          /\ (Calls(p, "Initialize") /\ result'[p] = "ErrAlreadyInitializing")
             => OtherInProgress(p)
          /\ (Calls(p, "Reset") /\ result'[p] = "ErrCannotResetWhileInitializing")
             => OtherInProgress(p)]_vars

\* ------------------------------------------------------------------- C17
\* C17: a Reset that returns nil leaves no label file and no metadata file in
\* the directory, whatever it held, and a Status() on the directory it left
\* returns NotStarted
C17_ResetEmptiesDirectory ==
    [][\A p \in Procs :
          /\ (pc[p] = "reset" /\ Moves(p) /\ result'[p] = "nil")
             => /\ DOMAIN files' = {}
                /\ meta' = NoMetadata
          /\ (pc[p] = "status" /\ Moves(p) /\ meta = NoMetadata /\ DOMAIN files = {})
             => result'[p] = "StatusNotStarted"]_vars

\* C17 witness: an instance that has retained a nonce, so that labels were
\* written, was reset, and Status() on the emptied directory has returned
\* NotStarted
C17_Witness ==
    \E p \in Procs :
        /\ Returned(p, "Status", "StatusNotStarted")
        /\ nonce[Inst(p)] # NoPos
        /\ meta = NoMetadata
        /\ DOMAIN files = {}

\* ------------------------------------------------------------------- C19
\* the records a and b name the same node id, commitment reference,
\* labels-per-unit and max-file-size
SameIdentity(a, b) ==
    /\ a.NodeId = b.NodeId
    /\ a.CommitmentAtxId = b.CommitmentAtxId
    /\ a.LabelsPerUnit = b.LabelsPerUnit
    /\ a.MaxFileSize = b.MaxFileSize

WorkerFinished(p) ==
    /\ doOpts[p] # NoOpts
    /\ pc[p] = "idle"
    /\ call[p] = "Initialize"

\* main has started every worker and each has returned
AllWorkersFinished ==
    /\ mainW = providers
    /\ \A p \in 1..providers : WorkerFinished(p)

\* C18: main returns only after every worker it started has finished, and
\* once every worker has finished main does return
C18_JoinReturns ==
    /\ [](mainPc = "done" => AllWorkersFinished)
    /\ AllWorkersFinished ~> (mainPc = "done")

\* ------------------------------------------------------------------- C21
\* the record holds a nonce that the instance of p does not retain: another
\* instance persisted it
HoldsNonceOfAnother(p) ==
    /\ meta # NoMetadata
    /\ meta[1].Nonce # NoPos
    /\ meta[1].Nonce # nonce[Inst(p)]

\* C21: when the Initializers of several partitions run on one directory, a
\* save by one instance never replaces a nonce another instance persisted by
\* no nonce or by a nonce of a larger value
C21_SharedRecordKeepsNonce ==
    [][\A p \in Procs :
          (Moves(p) /\ HoldsNonceOfAnother(p) /\ meta' # meta)
          => /\ meta' # NoMetadata
             /\ AsGood(meta'[1], meta'[1].Nonce, meta[1].Nonce)]_vars

\* ------------------------------------------------------------------- C22
\* the value NumLabelsWritten() returns for the instance of p
ProgressOf(p) == numLabelsWritten[Inst(p)]

\* C22: on a directory that is never reset, the progress counter of an
\* instance, read at any moment, is at most total_labels, and while the
\* instance lives no step lowers it, whatever Initialize calls are made
C22_ProgressMonotone ==
    /\ [](\A p \in Procs :
            pc[p] \notin {"none", "off"} => ProgressOf(p) <= NumLabels(opts[Inst(p)]))
    /\ [][\A p \in Procs :
            (pc[p] \notin {"none", "off"} /\ pc'[p] \notin {"none", "off"})
            => ProgressOf(p)' >= ProgressOf(p)]_vars

====
